---- MODULE Spec2Model ----
(***************************************************************************)
(* Model of the appointment-scheduling Lambda handler, src/src/handler.js: *)
(* validateApiKey, checkForExistingAppointment and schedule, together with *)
(* the DynamoDB table the handler scans and puts to.                       *)
(*                                                                         *)
(* Instants are milliseconds counted from 00:00:00.000 UTC of a reference  *)
(* day, as Date.parse and Date#getTime count them from the epoch.          *)
(*                                                                         *)
(* An ISO-8601 string is the record [wall, off, frac]: the clock digits it *)
(* shows (as milliseconds), the UTC offset it is written with (minutes,    *)
(* 0 for "Z") and whether it spells the milliseconds (".000").  Two such   *)
(* strings are the same string iff the three fields agree; Date.parse maps *)
(* several strings to one instant.  Any other text is [text |-> ...].      *)
(*                                                                         *)
(* A header value or secret is a sequence of tokens; "Bearer " (with its   *)
(* blank) is one token, so startsWith('Bearer ') looks at the head and     *)
(* substring(7) is the tail.                                               *)
(*                                                                         *)
(* A JSON object is a record whose DOMAIN holds the properties present.    *)
(***************************************************************************)
EXTENDS Integers, Sequences, FiniteSets, TLC

\* Number of concurrent invocations of the handler.
NumRequests == 2

\* Number of times the wall clock advances (by ClockStep) during a run.
MaxTicks == 2

Reqs == 1..NumRequests

VARIABLES
    apiKey,     \* process.env.API_KEY (<<>> when not set)
    clock,      \* wall clock, what new Date() reads
    ticks,      \* how often the clock has advanced
    store,      \* items of the DynamoDB table
    pc,         \* per invocation: position in schedule
    event,      \* per invocation: the Lambda event
    now,        \* per invocation: `now` of line 158
    scan,       \* per invocation: outcome of the ScanCommand
    item,       \* per invocation: itemToSave
    response,   \* per invocation: the returned response
    acked,      \* history: keys for which a success response was returned
    dup,        \* history, per invocation: its slot was acked before it began
    inWindow,   \* history, per invocation: the table held, when scanned, an
                \* item of the same location at most ConflictWindow away
    clobbered   \* history, per invocation: its put replaced an item

vars == <<apiKey, clock, ticks, store, pc, event, now, scan, item, response,
          acked, dup, inWindow, clobbered>>

-----------------------------------------------------------------------------
\* Time

MsPerMinute == 60 * 1000
MsPerSecond == MsPerMinute \div 60
MsPerHour == 60 * MsPerMinute

\* The instant d days, h hours, m minutes, s seconds after the reference 00:00.
At(d, h, m, s) == (d * 24 + h) * MsPerHour + m * MsPerMinute + s * MsPerSecond

\* "....-..-..Thh:mm:ssZ"
IsoZ(t) == [wall |-> t, off |-> 0, frac |-> FALSE]
\* "....-..-..Thh:mm:ss.000Z"
IsoMsZ(t) == [wall |-> t, off |-> 0, frac |-> TRUE]
\* "....-..-..Thh:mm:ss+01:00", the instant t written one hour east of UTC
IsoPlus1(t) == [wall |-> t + MsPerHour, off |-> 60, frac |-> FALSE]

IsIso(s) == "wall" \in DOMAIN s

\* Date.parse: the instant of an ISO string, NaN for any other text.
DateParse(s) ==
    IF IsIso(s) THEN [nan |-> FALSE, ms |-> s.wall - s.off * MsPerMinute]
                ELSE [nan |-> TRUE, ms |-> 0]

getUTCHours(t) == (t \div MsPerHour) % 24
getUTCMinutes(t) == (t \div MsPerMinute) % 60

\* Date#toISOString: always UTC, always with milliseconds.
toISOString(t) == IsoMsZ(t)

ClockStart == At(0, 9, 30, 0)
ClockStep == 30 * MsPerMinute

-----------------------------------------------------------------------------
\* Responses (statusCode and the object that body is the JSON text of)

Reply(code, msg) == [statusCode |-> code, body |-> [message |-> msg]]

MsgNoKey == "Internal Server Error: API Key not configured."
MsgUnauthorized == "Unauthorized"
MsgForbidden == "Forbidden"
MsgMissing == "Missing required fields. Please provide fullName, location, appointmentTime, car, and services."
MsgFormat == "Invalid appointmentTime format. Please provide a valid ISO 8601 date string."
MsgFuture == "Appointment time must be in the future."
MsgHours == "Appointments must be scheduled between 9 AM and 6 PM."
MsgInterval == "Appointments must be scheduled on the hour or half-hour (e.g., 9:00 AM, 9:30 AM)."
MsgJson == "Invalid JSON format in request body."
MsgBooked == "This appointment slot is already booked. Please select a different time or location."
MsgServer == "Failed to schedule appointment due to a server error."
MsgScheduled == "Appointment scheduled successfully!"

\* Lines 250-256 and 260-266: the 500 response carries error.message.
ServerError(err) ==
    [statusCode |-> 500, body |-> [message |-> MsgServer, error |-> err]]

\* Lines 236-246.
Success(saved) ==
    [statusCode |-> 200,
     body |-> [message |-> MsgScheduled, appointmentDetails |-> saved]]

-----------------------------------------------------------------------------
\* validateApiKey

Bearer == "Bearer "

Header(ev, name) ==
    IF "headers" \in DOMAIN ev /\ name \in DOMAIN ev.headers
    THEN ev.headers[name] ELSE <<>>

\* event.headers?.Authorization || event.headers?.authorization
\* (an absent header and the empty string are both falsy; both read <<>>)
authHeader(ev) ==
    IF Header(ev, "Authorization") # <<>> THEN Header(ev, "Authorization")
                                         ELSE Header(ev, "authorization")

startsWithBearer(h) == Len(h) >= 1 /\ h[1] = Bearer

\* Mutant of token: a header without the prefix is taken as the token.
token_NoPrefix(h) == IF startsWithBearer(h) THEN Tail(h) ELSE h

\* authHeader.startsWith('Bearer ') ? authHeader.substring(7) : null
\* (null and the empty token are both falsy; both read <<>>)
token(h) == IF startsWithBearer(h) THEN Tail(h) ELSE <<>>

\* Mutant of validateApiKey: a wrong token is answered like a missing one.
validateApiKey_Mismatch401(ev, key) ==
    IF key = <<>> THEN [valid |-> FALSE, response |-> Reply(500, MsgNoKey)]
    ELSE IF authHeader(ev) = <<>> \/ token(authHeader(ev)) = <<>>
              \/ token(authHeader(ev)) # key
         THEN [valid |-> FALSE, response |-> Reply(401, MsgUnauthorized)]
    ELSE [valid |-> TRUE]

validateApiKey(ev, key) ==
    IF key = <<>> THEN [valid |-> FALSE, response |-> Reply(500, MsgNoKey)]
    ELSE IF authHeader(ev) = <<>>
         THEN [valid |-> FALSE, response |-> Reply(401, MsgUnauthorized)]
    ELSE IF token(authHeader(ev)) = <<>>
         THEN [valid |-> FALSE, response |-> Reply(401, MsgUnauthorized)]
    ELSE IF token(authHeader(ev)) # key
         THEN [valid |-> FALSE, response |-> Reply(403, MsgForbidden)]
    ELSE [valid |-> TRUE]

-----------------------------------------------------------------------------
\* Request body

EmptyObject == << >>
EmptyText == [text |-> ""]

\* Mutant of BodyText: an absent or empty body is handed to JSON.parse as
\* it is, without the '{}' default, and does not parse.
BodyText_NoDefault(ev) ==
    IF "body" \in DOMAIN ev /\ ev.body # [kind |-> "empty"]
    THEN ev.body ELSE [kind |-> "garbage"]

\* The text the handler parses: event.body || '{}'
BodyText(ev) ==
    IF "body" \in DOMAIN ev /\ ev.body # [kind |-> "empty"]
    THEN ev.body ELSE [kind |-> "object", value |-> EmptyObject]

\* JSON.parse followed by the first property read of line 137: a text that is
\* no JSON throws SyntaxError, the text "null" parses and throws TypeError on
\* requestBody.fullName; both land in the catch of line 194.
ParsesToObject(text) == text.kind = "object"

Has(b, f) == f \in DOMAIN b

\* !requestBody.<f> : undefined and "" are falsy, every array is truthy.
MissingString(b, f) == ~Has(b, f) \/ b[f] = ""
MissingTime(b) == ~Has(b, "appointmentTime") \/ b.appointmentTime = EmptyText
MissingServices(b) == ~Has(b, "services")

\* Mutant of MissingRequired: car is optional (as the comment of line 218 has it).
MissingRequired_CarOptional(b) ==
    \/ MissingString(b, "fullName")
    \/ MissingString(b, "location")
    \/ MissingTime(b)
    \/ MissingServices(b)

\* Line 137.
MissingRequired(b) ==
    \/ MissingString(b, "fullName")
    \/ MissingString(b, "location")
    \/ MissingTime(b)
    \/ MissingString(b, "car")
    \/ MissingServices(b)

\* Mutant of NotInFuture: the instant `now` itself is let through.
NotInFuture_Strict(t, n) == t < n

\* Line 161: appointmentDate <= now
NotInFuture(t, n) == t <= n

\* Line 174.
OutsideHours(t) ==
    \/ getUTCHours(t) < 9
    \/ getUTCHours(t) > 18
    \/ (getUTCHours(t) = 18 /\ getUTCMinutes(t) > 0)

\* Mutant of OffInterval: the quarter hours are let through.
OffInterval_Quarters(t) == getUTCMinutes(t) % 15 # 0

\* Line 184.
OffInterval(t) == getUTCMinutes(t) # 0 /\ getUTCMinutes(t) # 30

\* Lines 137-191 on a parsed body: the response of the first failing check,
\* or no response.
CheckBody(b, n) ==
    IF MissingRequired(b) THEN [pass |-> FALSE, response |-> Reply(400, MsgMissing)]
    ELSE LET timestamp == DateParse(b.appointmentTime) IN
    IF timestamp.nan THEN [pass |-> FALSE, response |-> Reply(400, MsgFormat)]
    ELSE IF NotInFuture(timestamp.ms, n)
         THEN [pass |-> FALSE, response |-> Reply(400, MsgFuture)]
    ELSE IF OutsideHours(timestamp.ms)
         THEN [pass |-> FALSE, response |-> Reply(400, MsgHours)]
    ELSE IF OffInterval(timestamp.ms)
         THEN [pass |-> FALSE, response |-> Reply(400, MsgInterval)]
    ELSE [pass |-> TRUE, requestBody |-> b]

\* Mutant of Precheck: the body is parsed and validated before the API key.
Precheck_BodyFirst(ev, key, n) ==
    LET checked == IF ~ParsesToObject(BodyText(ev))
                   THEN [pass |-> FALSE, response |-> Reply(400, MsgJson)]
                   ELSE CheckBody(BodyText(ev).value, n)
        apiKeyValidation == validateApiKey(ev, key)
    IN  IF ~checked.pass THEN checked
        ELSE IF ~apiKeyValidation.valid
             THEN [pass |-> FALSE, response |-> apiKeyValidation.response]
        ELSE checked

\* Mutant of Precheck: validation looks into the table and turns a request
\* for a stored slot away by itself.
Precheck_SeesTable(ev, key, n) ==
    LET apiKeyValidation == validateApiKey(ev, key) IN
    IF ~apiKeyValidation.valid
    THEN [pass |-> FALSE, response |-> apiKeyValidation.response]
    ELSE IF ~ParsesToObject(BodyText(ev))
         THEN [pass |-> FALSE, response |-> Reply(400, MsgJson)]
    ELSE LET checked == CheckBody(BodyText(ev).value, n) IN
         IF checked.pass /\ \E x \in store :
                               /\ x.location = checked.requestBody.location
                               /\ x.appointmentTime = checked.requestBody.appointmentTime
         THEN [pass |-> FALSE, response |-> Reply(400, MsgFuture)]
         ELSE checked

\* Lines 118-200: everything schedule does before its first store call.
Precheck(ev, key, n) ==
    LET apiKeyValidation == validateApiKey(ev, key) IN
    IF ~apiKeyValidation.valid
    THEN [pass |-> FALSE, response |-> apiKeyValidation.response]
    ELSE IF ~ParsesToObject(BodyText(ev))
         THEN [pass |-> FALSE, response |-> Reply(400, MsgJson)]
    ELSE CheckBody(BodyText(ev).value, n)

-----------------------------------------------------------------------------
\* The table.  The handler writes items whose partition key is location and
\* whose sort key is appointmentTime (lines 215-216): the table holds at most
\* one item per (location, appointmentTime) and a put replaces the item that
\* has the key of the new one.

SameKey(x, y) == x.location = y.location /\ x.appointmentTime = y.appointmentTime

\* Mutant of ScanItems: the filter leaves the location out.
ScanItems_AnyLocation(table, location, appointmentTime) ==
    {x \in table : x.appointmentTime = appointmentTime}

\* ScanCommand with FilterExpression "#loc = :loc AND appointmentTime = :time"
ScanItems(table, location, appointmentTime) ==
    {x \in table : x.location = location /\ x.appointmentTime = appointmentTime}

\* PutCommand without a ConditionExpression.
PutItem(table, it) == {x \in table : ~SameKey(x, it)} \cup {it}

InstantOf(str) == DateParse(str).ms

\* Mutant of itemToSave: the appointment time is stored in the spelling of
\* toISOString instead of the spelling of the request.
itemToSave_Canonical(requestBody, t) ==
    [location |-> requestBody.location,
     appointmentTime |-> toISOString(InstantOf(requestBody.appointmentTime)),
     fullName |-> requestBody.fullName,
     car |-> requestBody.car,
     services |-> requestBody.services,
     createdAt |-> toISOString(t)]

\* Lines 214-221.
itemToSave(requestBody, t) ==
    [location |-> requestBody.location,
     appointmentTime |-> requestBody.appointmentTime,
     fullName |-> requestBody.fullName,
     car |-> requestBody.car,
     services |-> requestBody.services,
     createdAt |-> toISOString(t)]

\* The request body of an invocation that passed every check.
Body(r) == BodyText(event[r]).value

\* Half the 30-minute slot: the tolerance the design gives the conflict check.
ConflictWindow == 15 * MsPerMinute

Distance(a, b) == IF a >= b THEN a - b ELSE b - a

Near(x, location, t) ==
    x.location = location /\ Distance(InstantOf(x.appointmentTime), t) <= ConflictWindow

Slot(it) == [location |-> it.location, appointmentTime |-> it.appointmentTime]

-----------------------------------------------------------------------------
\* Actions

None == << >>

\* Mutant of schedule: the conflict query is sent before the body is
\* validated, so a request that fails validation has queried the table.
schedule_QueryFirst(r, ev) ==
    /\ pc[r] = "idle"
    /\ \A q \in Reqs : q < r => pc[q] # "idle"
    /\ event' = [event EXCEPT ![r] = ev]
    /\ now' = [now EXCEPT ![r] = clock]
    /\ LET pre == Precheck(ev, apiKey, clock) IN
       IF pre.pass
       THEN /\ pc' = [pc EXCEPT ![r] = "scanning"]
            /\ dup' = [dup EXCEPT ![r] = Slot(pre.requestBody) \in acked]
            /\ UNCHANGED <<response, scan>>
       ELSE /\ pc' = [pc EXCEPT ![r] = "done"]
            /\ response' = [response EXCEPT ![r] = pre.response]
            /\ scan' = [scan EXCEPT ![r] =
                   IF validateApiKey(ev, apiKey).valid
                   THEN [ok |-> TRUE, Items |-> store] ELSE None]
            /\ UNCHANGED dup
    /\ UNCHANGED <<apiKey, clock, ticks, store, item, acked, inWindow, clobbered>>

\* schedule is invoked with event ev and runs up to its first await (line 203)
\* or to the return of a 4xx/500 response.  Invocations are numbered in the
\* order in which they begin.
schedule(r, ev) ==
    /\ pc[r] = "idle"
    /\ \A q \in Reqs : q < r => pc[q] # "idle"
    /\ event' = [event EXCEPT ![r] = ev]
    /\ now' = [now EXCEPT ![r] = clock]
    /\ LET pre == Precheck(ev, apiKey, clock) IN
       IF pre.pass
       THEN /\ pc' = [pc EXCEPT ![r] = "scanning"]
            /\ dup' = [dup EXCEPT ![r] = Slot(pre.requestBody) \in acked]
            /\ UNCHANGED response
       ELSE /\ pc' = [pc EXCEPT ![r] = "done"]
            /\ response' = [response EXCEPT ![r] = pre.response]
            /\ UNCHANGED dup
    /\ UNCHANGED <<apiKey, clock, ticks, store, scan, item, acked, inWindow, clobbered>>

\* The table answers the ScanCommand of line 65.
ScanStore(r) ==
    /\ pc[r] = "scanning"
    /\ pc' = [pc EXCEPT ![r] = "scanned"]
    /\ scan' = [scan EXCEPT ![r] =
           [ok |-> TRUE,
            Items |-> ScanItems(store, Body(r).location, Body(r).appointmentTime)]]
    /\ inWindow' = [inWindow EXCEPT ![r] =
           \E x \in store : Near(x, Body(r).location, InstantOf(Body(r).appointmentTime))]
    /\ UNCHANGED <<apiKey, clock, ticks, store, event, now, item, response, acked, dup, clobbered>>

\* The ScanCommand is rejected with error err.
ScanFail(r, err) ==
    /\ pc[r] = "scanning"
    /\ pc' = [pc EXCEPT ![r] = "scanned"]
    /\ scan' = [scan EXCEPT ![r] = [ok |-> FALSE, error |-> err]]
    /\ UNCHANGED <<apiKey, clock, ticks, store, event, now, item, response, acked, dup, inWindow, clobbered>>

\* Mutant of hasExistingAppointment: Items.length > 1
hasExistingAppointment_Several(Items) == Cardinality(Items) > 1

\* Line 66.
hasExistingAppointment(Items) == Items # {}

\* Mutant of ScanReply: the rejection of the query is not caught; the
\* invocation ends without a response.
ScanReply_Uncaught(r) ==
    /\ pc[r] = "scanned"
    /\ IF ~scan[r].ok
       THEN /\ pc' = [pc EXCEPT ![r] = "done"]
            /\ UNCHANGED <<response, item>>
       ELSE IF hasExistingAppointment(scan[r].Items)
       THEN /\ pc' = [pc EXCEPT ![r] = "done"]
            /\ response' = [response EXCEPT ![r] = Reply(409, MsgBooked)]
            /\ UNCHANGED item
       ELSE /\ pc' = [pc EXCEPT ![r] = "putting"]
            /\ item' = [item EXCEPT ![r] = itemToSave(Body(r), clock)]
            /\ UNCHANGED response
    /\ UNCHANGED <<apiKey, clock, ticks, store, event, now, scan, acked, dup, inWindow, clobbered>>

\* Mutant of ScanReply: a rejected query is sent again.
ScanReply_Retry(r) ==
    /\ pc[r] = "scanned"
    /\ IF ~scan[r].ok
       THEN /\ pc' = [pc EXCEPT ![r] = "scanning"]
            /\ UNCHANGED <<response, item>>
       ELSE IF hasExistingAppointment(scan[r].Items)
       THEN /\ pc' = [pc EXCEPT ![r] = "done"]
            /\ response' = [response EXCEPT ![r] = Reply(409, MsgBooked)]
            /\ UNCHANGED item
       ELSE /\ pc' = [pc EXCEPT ![r] = "putting"]
            /\ item' = [item EXCEPT ![r] = itemToSave(Body(r), clock)]
            /\ UNCHANGED response
    /\ UNCHANGED <<apiKey, clock, ticks, store, event, now, scan, acked, dup, inWindow, clobbered>>

\* The await of line 203 returns; schedule runs on to the await of line 232,
\* or returns 409, or lands in the catch of line 258.
ScanReply(r) ==
    /\ pc[r] = "scanned"
    /\ IF ~scan[r].ok
       THEN /\ pc' = [pc EXCEPT ![r] = "done"]
            /\ response' = [response EXCEPT ![r] = ServerError(scan[r].error)]
            /\ UNCHANGED item
       ELSE IF hasExistingAppointment(scan[r].Items)
       THEN /\ pc' = [pc EXCEPT ![r] = "done"]
            /\ response' = [response EXCEPT ![r] = Reply(409, MsgBooked)]
            /\ UNCHANGED item
       ELSE /\ pc' = [pc EXCEPT ![r] = "putting"]
            /\ item' = [item EXCEPT ![r] = itemToSave(Body(r), clock)]
            /\ UNCHANGED response
    /\ UNCHANGED <<apiKey, clock, ticks, store, event, now, scan, acked, dup, inWindow, clobbered>>

\* Mutant of PutOk: the put is conditional on the key being free, and its
\* rejection is answered as a conflict.
PutOk_IfAbsent(r) ==
    /\ pc[r] = "putting"
    /\ pc' = [pc EXCEPT ![r] = "done"]
    /\ IF \E x \in store : SameKey(x, item[r])
       THEN /\ response' = [response EXCEPT ![r] = Reply(409, MsgBooked)]
            /\ UNCHANGED <<store, acked>>
       ELSE /\ store' = PutItem(store, item[r])
            /\ response' = [response EXCEPT ![r] = Success(item[r])]
            /\ acked' = acked \cup {Slot(item[r])}
    /\ UNCHANGED <<apiKey, clock, ticks, event, now, scan, item, dup, inWindow, clobbered>>

\* The table performs the PutCommand of line 232 and schedule returns success.
PutOk(r) ==
    /\ pc[r] = "putting"
    /\ pc' = [pc EXCEPT ![r] = "done"]
    /\ store' = PutItem(store, item[r])
    /\ response' = [response EXCEPT ![r] = Success(item[r])]
    /\ acked' = acked \cup {Slot(item[r])}
    /\ clobbered' = [clobbered EXCEPT ![r] = \E x \in store : SameKey(x, item[r])]
    /\ UNCHANGED <<apiKey, clock, ticks, event, now, scan, item, dup, inWindow>>

\* The PutCommand is rejected with error err: the catch of line 247.
PutFail(r, err) ==
    /\ pc[r] = "putting"
    /\ pc' = [pc EXCEPT ![r] = "done"]
    /\ response' = [response EXCEPT ![r] = ServerError(err)]
    /\ UNCHANGED <<apiKey, clock, ticks, store, event, now, scan, item, acked, dup, inWindow, clobbered>>

\* Time passes.
Tick ==
    /\ ticks < MaxTicks
    /\ ticks' = ticks + 1
    /\ clock' = clock + ClockStep
    /\ UNCHANGED <<apiKey, store, pc, event, now, scan, item, response, acked, dup, inWindow, clobbered>>

\* No invocation is between its start and its response.
Quiet == \A r \in Reqs : pc[r] \in {"idle", "done"}

-----------------------------------------------------------------------------
\* Inputs

Secret == <<"test-api-key">>
GoodHeaders == [Authorization |-> <<Bearer, "test-api-key">>]

JsonBody(obj) == [kind |-> "object", value |-> obj]

Request(fullName, location, appointmentTime) ==
    [headers |-> GoodHeaders,
     body |-> JsonBody([fullName |-> fullName, location |-> location,
                        appointmentTime |-> appointmentTime,
                        car |-> "Subaru Outback", services |-> <<"Oil Change">>])]

T1000 == At(0, 10, 0, 0)

\* Well-formed bookings of two customers: at one location an instant in two
\* spellings, the instant half a minute later and the next slot; the first
\* instant at a second location.
BookingEvents ==
    {Request(n, "Loc-A", t) :
        n \in {"Ann", "Bob"},
        t \in {IsoZ(T1000), IsoMsZ(T1000), IsoZ(T1000 + 30 * MsPerSecond),
               IsoZ(T1000 + 30 * MsPerMinute)}}
    \cup {Request(n, "Loc-B", IsoZ(T1000)) : n \in {"Ann", "Bob"}}

StoreErrors == {"DB Error"}

\* Events of every shape the handler tells apart.

Fields == {"fullName", "location", "appointmentTime", "car", "services"}

\* The JSON object holding the properties D with the given values.
Object(D, fullName, location, appointmentTime, car, services) ==
    [f \in D |-> CASE f = "fullName" -> fullName
                  [] f = "location" -> location
                  [] f = "appointmentTime" -> appointmentTime
                  [] f = "car" -> car
                  [] f = "services" -> services]

TimeTexts ==
    {IsoZ(At(0, 8, 0, 0)), IsoZ(At(0, 9, 0, 0)), IsoZ(At(0, 9, 15, 0)),
     IsoZ(T1000), IsoMsZ(T1000), IsoPlus1(T1000),
     IsoZ(T1000 + 30 * MsPerSecond), IsoZ(At(0, 10, 15, 0)),
     IsoZ(At(0, 10, 30, 0)), IsoZ(At(0, 18, 0, 0)), IsoZ(At(0, 18, 15, 0)),
     IsoZ(At(0, 18, 30, 0)), IsoZ(At(0, 19, 0, 0)), IsoZ(At(0, 19, 45, 0)),
     IsoZ(At(1, 8, 15, 0)), IsoZ(At(1, 8, 30, 0)), IsoZ(At(1, 9, 0, 0)),
     [text |-> "invalid-date"], EmptyText}

ServicesLists ==
    {<< >>, <<"Oil Change">>, <<"Oil Change", "">>, <<"Oil Change", "   ">>}

\* The values a property takes in the objects that hold it.
Among(D, f, values, one) == IF f \in D THEN values ELSE {one}

Objects ==
    UNION {{Object(D, n, l, t, c, sv) :
              n \in Among(D, "fullName", {"", "Ann"}, ""),
              l \in Among(D, "location", {"", "Loc-A"}, ""),
              t \in Among(D, "appointmentTime", TimeTexts, EmptyText),
              c \in Among(D, "car", {"", "Subaru Outback"}, ""),
              sv \in Among(D, "services", ServicesLists, << >>)} :
           D \in SUBSET Fields}

HeaderSets ==
    {EmptyObject,
     [Authorization |-> <<Bearer, "test-api-key">>],
     [authorization |-> <<Bearer, "test-api-key">>],
     [Authorization |-> <<Bearer, "wrong-api-key">>],
     [authorization |-> <<Bearer, "wrong-api-key">>],
     [Authorization |-> <<"test-api-key">>],
     [Authorization |-> <<"Basic ", "test-api-key">>],
     [Authorization |-> <<Bearer>>],
     [Authorization |-> << >>, authorization |-> <<Bearer, "test-api-key">>],
     [Authorization |-> <<Bearer, "wrong-api-key">>,
      authorization |-> <<Bearer, "test-api-key">>]}

OtherBodies == {[kind |-> "empty"], [kind |-> "garbage"], [kind |-> "null"]}

\* A few bodies of each kind, for the events whose headers are varied.
SampleBodies ==
    OtherBodies
    \cup {JsonBody(Object(Fields, "Ann", "Loc-A", t, "Subaru Outback", <<"Oil Change">>)) :
            t \in {IsoZ(T1000), IsoZ(At(0, 9, 0, 0)), IsoZ(At(0, 10, 15, 0)),
                   [text |-> "invalid-date"]}}
    \cup {JsonBody([fullName |-> "Ann"])}

AllEvents ==
    {[headers |-> GoodHeaders, body |-> JsonBody(o)] : o \in Objects}
    \cup {[headers |-> h, body |-> b] : h \in HeaderSets, b \in SampleBodies}
    \cup {[headers |-> h] : h \in HeaderSets}
    \cup {[body |-> b] : b \in SampleBodies}

\* An item a past invocation left in the table.
Earlier ==
    itemToSave([fullName |-> "Eve", location |-> "Loc-A",
                appointmentTime |-> IsoZ(T1000), car |-> "Subaru Forester",
                services |-> <<"Tire Rotation">>], At(0, 9, 0, 0))

-----------------------------------------------------------------------------
\* Specifications

Init ==
    /\ apiKey = Secret
    /\ clock = ClockStart
    /\ ticks = 0
    /\ store = {}
    /\ pc = [r \in Reqs |-> "idle"]
    /\ event = [r \in Reqs |-> None]
    /\ now = [r \in Reqs |-> 0]
    /\ scan = [r \in Reqs |-> None]
    /\ item = [r \in Reqs |-> None]
    /\ response = [r \in Reqs |-> None]
    /\ acked = {}
    /\ dup = [r \in Reqs |-> FALSE]
    /\ inWindow = [r \in Reqs |-> FALSE]
    /\ clobbered = [r \in Reqs |-> FALSE]

\* Concurrent invocations, each a well-formed booking.
Next ==
    \/ \E r \in Reqs, ev \in BookingEvents : schedule(r, ev)
    \/ \E r \in Reqs : ScanStore(r)
    \/ \E r \in Reqs, err \in StoreErrors : ScanFail(r, err)
    \/ \E r \in Reqs : ScanReply(r)
    \/ \E r \in Reqs : PutOk(r)
    \/ \E r \in Reqs, err \in StoreErrors : PutFail(r, err)

Spec == Init /\ [][Next]_vars

\* Invocations one after the other: an invocation begins only when no other
\* is under way.
ScheduleAlone(r, ev) == Quiet /\ schedule(r, ev)

NextSeq ==
    \/ \E r \in Reqs, ev \in BookingEvents : ScheduleAlone(r, ev)
    \/ \E r \in Reqs : ScanStore(r)
    \/ \E r \in Reqs, err \in StoreErrors : ScanFail(r, err)
    \/ \E r \in Reqs : ScanReply(r)
    \/ \E r \in Reqs : PutOk(r)
    \/ \E r \in Reqs, err \in StoreErrors : PutFail(r, err)

SpecSeq == Init /\ [][NextSeq]_vars

\* Every store call is eventually resolved or rejected, and an invocation
\* whose await has returned runs on.
StoreAnswers(r) ==
    /\ WF_vars(ScanStore(r) \/ \E err \in StoreErrors : ScanFail(r, err))
    /\ WF_vars(ScanReply(r))
    /\ WF_vars(PutOk(r) \/ \E err \in StoreErrors : PutFail(r, err))

\* Two bookings of one slot, a body that is no JSON, a request without
\* headers and one without token.
LiveEvents ==
    {Request("Ann", "Loc-A", IsoZ(T1000)), Request("Bob", "Loc-A", IsoZ(T1000)),
     [headers |-> GoodHeaders, body |-> [kind |-> "garbage"]],
     [body |-> JsonBody([fullName |-> "Ann"])],
     [headers |-> [Authorization |-> <<Bearer>>]]}

NextLive ==
    \/ \E r \in Reqs, ev \in LiveEvents : schedule(r, ev)
    \/ \E r \in Reqs : ScanStore(r)
    \/ \E r \in Reqs, err \in StoreErrors : ScanFail(r, err)
    \/ \E r \in Reqs : ScanReply(r)
    \/ \E r \in Reqs : PutOk(r)
    \/ \E r \in Reqs, err \in StoreErrors : PutFail(r, err)

SpecLive == Init /\ [][NextLive]_vars /\ \A r \in Reqs : StoreAnswers(r)

\* Requests of each classification, some of them classified by the clock.
ValidationEvents ==
    {Request("Ann", "Loc-A", IsoZ(T1000)),
     Request("Ann", "Loc-A", IsoZ(At(0, 10, 30, 0))),
     Request("Ann", "Loc-A", IsoZ(At(0, 10, 15, 0))),
     Request("Ann", "Loc-A", [text |-> "invalid-date"]),
     [headers |-> GoodHeaders, body |-> JsonBody([fullName |-> "Ann"])],
     [headers |-> GoodHeaders, body |-> [kind |-> "garbage"]],
     [headers |-> [Authorization |-> <<Bearer, "wrong-api-key">>],
      body |-> Request("Ann", "Loc-A", IsoZ(T1000)).body],
     [body |-> Request("Ann", "Loc-A", IsoZ(T1000)).body]}

\* Invocations with events of every classification, concurrently, while the
\* clock advances, with the key configured or not, on an empty table or one
\* holding an item.
NextTwice ==
    \/ \E r \in Reqs, ev \in ValidationEvents : schedule(r, ev)
    \/ \E r \in Reqs : ScanStore(r)
    \/ \E r \in Reqs, err \in StoreErrors : ScanFail(r, err)
    \/ \E r \in Reqs : ScanReply(r)
    \/ \E r \in Reqs : PutOk(r)
    \/ \E r \in Reqs, err \in StoreErrors : PutFail(r, err)
    \/ Tick

\* The messages of two errors the table rejects a command with.
CauseErrors == {"DB Error", "ProvisionedThroughputExceededException"}

\* Invocations whose store calls are rejected for one cause or another.
NextFaulty ==
    \/ \E r \in Reqs, ev \in LiveEvents : schedule(r, ev)
    \/ \E r \in Reqs : ScanStore(r)
    \/ \E r \in Reqs, err \in CauseErrors : ScanFail(r, err)
    \/ \E r \in Reqs : ScanReply(r)
    \/ \E r \in Reqs : PutOk(r)
    \/ \E r \in Reqs, err \in CauseErrors : PutFail(r, err)

SpecFaulty == Init /\ [][NextFaulty]_vars

\* Bodies that lack exactly one property and are well-formed otherwise.
LackingOne ==
    {[headers |-> GoodHeaders,
      body |-> JsonBody(Object(Fields \ {f}, "Bob", "Loc-A", IsoZ(At(0, 11, 0, 0)),
                               "Subaru Outback", <<"Oil Change">>))] : f \in Fields}

\* An invocation with an event of any shape, at any time of the clock, with
\* the key configured or not, on an empty table or one holding an item; and
\* after it began, an invocation whose body lacks one property.
InitOne ==
    /\ apiKey \in {Secret, << >>}
    /\ ticks \in 0..MaxTicks
    /\ clock = ClockStart + ticks * ClockStep
    /\ store \in {{}, {Earlier}}
    /\ acked = {Slot(x) : x \in store}
    /\ pc = [r \in Reqs |-> "idle"]
    /\ event = [r \in Reqs |-> None]
    /\ now = [r \in Reqs |-> 0]
    /\ scan = [r \in Reqs |-> None]
    /\ item = [r \in Reqs |-> None]
    /\ response = [r \in Reqs |-> None]
    /\ dup = [r \in Reqs |-> FALSE]
    /\ inWindow = [r \in Reqs |-> FALSE]
    /\ clobbered = [r \in Reqs |-> FALSE]

ScheduleFirst == pc[1] = "idle" /\ \E ev \in AllEvents : schedule(1, ev)
ScheduleSecond == pc[2] = "idle" /\ \E ev \in LackingOne : schedule(2, ev)

NextOne ==
    \/ ScheduleFirst
    \/ ScheduleSecond
    \/ ScanStore(1)
    \/ \E err \in StoreErrors : ScanFail(1, err)
    \/ ScanReply(1)
    \/ PutOk(1)
    \/ \E err \in StoreErrors : PutFail(1, err)

SpecOne == InitOne /\ [][NextOne]_vars

SpecTwice == InitOne /\ [][NextTwice]_vars

-----------------------------------------------------------------------------
\* Vocabulary of the properties

Done(r) == pc[r] = "done"
Status(r) == response[r].statusCode
Message(r) == response[r].body.message

\* The invocation passed authentication and validation and sent its query.
Queried(r) == pc[r] \in {"scanning", "scanned", "putting"} \/ (Done(r) /\ scan[r] # None)
\* The table answered the query of the invocation (it did not reject it).
Answered(r) == scan[r] # None /\ scan[r].ok
\* The query of the invocation came back empty.
PassedCheck(r) == Answered(r) /\ scan[r].Items = {}
\* The invocation made no store call: it sent neither the query nor the put.
NoStoreCall(r) == scan[r] = None /\ item[r] = None

\* The bearer token of the request is the configured secret.
Authed(r) ==
    /\ apiKey # << >>
    /\ startsWithBearer(authHeader(event[r]))
    /\ Tail(authHeader(event[r])) = apiKey
\* The body of the request is the text of a JSON object.
HasObject(r) == BodyText(event[r]).kind = "object"

Filled(b, f) == f \in DOMAIN b /\ b[f] # ""
TimeGiven(b) == "appointmentTime" \in DOMAIN b /\ b.appointmentTime # EmptyText
\* Property f is present, and not empty if it is a string.
Given(b, f) ==
    CASE f = "appointmentTime" -> TimeGiven(b)
      [] f = "services" -> "services" \in DOMAIN b
      [] OTHER -> Filled(b, f)
\* fullName, location, appointmentTime and car are present and not empty,
\* services is present.
AllPresent(b) == \A f \in Fields : Given(b, f)
\* The request lacks exactly the property f.
LacksOnly(b, f) == ~Given(b, f) /\ \A g \in Fields \ {f} : Given(b, g)

Blank(str) == str \in {"", "   "}
ServicesEmpty(b) == b.services = << >>
ServicesBlank(b) == \E i \in 1..Len(b.services) : Blank(b.services[i])

\* The messages the tests of the services check expect.
MsgServicesEmpty == "Services array cannot be empty"
MsgServicesBlank == "Services cannot contain empty values"

\* A request nobody would call invalid: every property filled, services
\* well-formed, a parseable time later than n, on the half-hour grid and
\* well inside the opening hours.
PlainlyValid(b, n) ==
    /\ AllPresent(b)
    /\ ~ServicesEmpty(b) /\ ~ServicesBlank(b)
    /\ IsIso(b.appointmentTime)
    /\ InstantOf(b.appointmentTime) > n
    /\ getUTCHours(InstantOf(b.appointmentTime)) \in 9..17
    /\ getUTCMinutes(InstantOf(b.appointmentTime)) \in {0, 30}

-----------------------------------------------------------------------------
\* C1: no two items of the table with the same location have appointment
\* times within one conflict window (15 minutes) of each other; in
\* particular no two items of a location are for the same instant.
C1_NoTwoInWindow ==
    \A x \in store : \A y \in store :
        (x # y /\ x.location = y.location)
            => Distance(InstantOf(x.appointmentTime), InstantOf(y.appointmentTime))
                   > ConflictWindow

\* C2: the conflict query and the put are separate operations and nothing
\* between them guards the slot: an invocation whose query came back empty is
\* never turned away afterwards, whatever was put meanwhile; it returns
\* success unless the table rejects its own put with a store error.  Hence
\* two invocations for one location and appointmentTime can both succeed.
C2_CheckThenAct ==
    \A r \in Reqs :
        (Done(r) /\ PassedCheck(r))
            => \/ Status(r) = 200
               \/ Status(r) = 500 /\ response[r].body.error \in StoreErrors

\* Two invocations for the same location and appointmentTime both found the
\* slot free and both returned success; the later put replaced the earlier.
C2_DoubleBooked ==
    \E r1 \in Reqs : \E r2 \in Reqs :
        /\ r1 # r2
        /\ Done(r1) /\ Done(r2)
        /\ PassedCheck(r1) /\ PassedCheck(r2)
        /\ Slot(Body(r1)) = Slot(Body(r2))
        /\ Status(r1) = 200 /\ Status(r2) = 200
        /\ clobbered[r1] \/ clobbered[r2]

\* C4: the conflict check has a symmetric, inclusive tolerance of 15 minutes:
\* an invocation whose query the table answered is told 409 if the table then
\* held an item of its location at most 15 minutes from its time, and is not
\* told 409 otherwise.
C4_WindowConflict ==
    \A r \in Reqs :
        (Done(r) /\ Answered(r))
            => (inWindow[r] <=> (Status(r) = 409 /\ Message(r) = MsgBooked))

-----------------------------------------------------------------------------
\* C3: with invocations one after the other and nothing deleted, once a
\* request for a location and appointmentTime has returned success, a later
\* authenticated valid request for the same location and appointmentTime
\* sends no put, leaves the table as it is, and, the table answering its
\* query, returns 409 with the already-booked message.
C3_RepeatRejected ==
    /\ [](\A r \in Reqs :
            dup[r] => /\ pc[r] # "putting"
                      /\ item[r] = None
                      /\ (Done(r) /\ Answered(r)) => response[r] = Reply(409, MsgBooked))
    /\ [][(\E r \in Reqs : dup[r] /\ ~Done(r)) => store' = store]_vars

\* A repeated request was answered 409.
C3_Repeated ==
    \E r \in Reqs : Done(r) /\ dup[r] /\ response[r] = Reply(409, MsgBooked)
                    /\ \E q \in Reqs : q < r /\ Status(q) = 200
                                       /\ Slot(Body(q)) = Slot(Body(r))

-----------------------------------------------------------------------------
\* C5: with the key configured, a request without credential is answered
\* 401 Unauthorized; a request whose bearer token is not the secret is
\* answered 403 Forbidden; a request whose bearer token is the secret and
\* whose payload is valid is not turned away, and is answered success when
\* its conflict query comes back empty (and the table does not fail).
C5_AuthClassification ==
    \A r \in Reqs :
        (Done(r) /\ apiKey # << >>) =>
            LET h == authHeader(event[r]) IN
            /\ h = << >> => response[r] = Reply(401, MsgUnauthorized)
            /\ (startsWithBearer(h) /\ Tail(h) # << >> /\ Tail(h) # apiKey)
                   => response[r] = Reply(403, MsgForbidden)
            /\ (Authed(r) /\ HasObject(r) /\ PlainlyValid(Body(r), now[r]))
                   => /\ Status(r) \in {200, 409, 500}
                      /\ Status(r) = 409 => (Answered(r) /\ ~PassedCheck(r))
                      /\ Status(r) = 500 => response[r].body.error \in StoreErrors

\* A request with a wrong bearer token was answered 403.
C5_Mismatch ==
    \E r \in Reqs :
        /\ Done(r) /\ apiKey # << >>
        /\ startsWithBearer(authHeader(event[r]))
        /\ Tail(authHeader(event[r])) \notin {<< >>, apiKey}
        /\ response[r] = Reply(403, MsgForbidden)

-----------------------------------------------------------------------------
\* C6: the checks run in the order presence, services well-formedness,
\* timestamp parseability, future-dated, business hours, interval, and the
\* response carries the message of the first check the request violates.
C6_CheckOrder ==
    \A r \in Reqs :
        (Done(r) /\ Authed(r) /\ HasObject(r)) =>
            LET b == Body(r)
                t == InstantOf(b.appointmentTime)
            IN  IF ~AllPresent(b) THEN response[r] = Reply(400, MsgMissing)
                ELSE IF ServicesEmpty(b) THEN response[r] = Reply(400, MsgServicesEmpty)
                ELSE IF ServicesBlank(b) THEN response[r] = Reply(400, MsgServicesBlank)
                ELSE IF ~IsIso(b.appointmentTime) THEN response[r] = Reply(400, MsgFormat)
                ELSE IF t <= now[r] THEN response[r] = Reply(400, MsgFuture)
                ELSE IF OutsideHours(t) THEN response[r] = Reply(400, MsgHours)
                ELSE IF getUTCMinutes(t) \notin {0, 30}
                     THEN response[r] = Reply(400, MsgInterval)
                ELSE Status(r) # 400

\* C7: an authenticated request whose services is an empty array, or holds an
\* empty or whitespace-only string, is answered 400 and nothing is stored; its
\* other properties being present, the message is the services message.
C7_ServicesRejected ==
    \A r \in Reqs :
        (Done(r) /\ Authed(r) /\ HasObject(r) /\ "services" \in DOMAIN Body(r)
            /\ (ServicesEmpty(Body(r)) \/ ServicesBlank(Body(r))))
        => /\ Status(r) = 400
           /\ NoStoreCall(r)
           /\ AllPresent(Body(r)) =>
                  Message(r) = IF ServicesEmpty(Body(r)) THEN MsgServicesEmpty
                                                       ELSE MsgServicesBlank

-----------------------------------------------------------------------------
-----------------------------------------------------------------------------
\* C9: an authenticated request with every field present and a parseable
\* appointmentTime at or before `now` (the instant `now` itself included) is
\* answered 400 with the message that the time must be in the future, and
\* nothing is stored.
C9_PastRejected ==
    \A r \in Reqs :
        (Done(r) /\ Authed(r) /\ HasObject(r) /\ AllPresent(Body(r))
            /\ IsIso(Body(r).appointmentTime)
            /\ InstantOf(Body(r).appointmentTime) <= now[r])
        => /\ response[r] = Reply(400, MsgFuture)
           /\ NoStoreCall(r)

\* A request for the very instant `now` was answered as past-dated.
C9_AtNow ==
    \E r \in Reqs :
        /\ Done(r) /\ Authed(r) /\ HasObject(r) /\ AllPresent(Body(r))
        /\ IsIso(Body(r).appointmentTime)
        /\ InstantOf(Body(r).appointmentTime) = now[r]
        /\ response[r] = Reply(400, MsgFuture)

-----------------------------------------------------------------------------
\* The request is authenticated, every field is present, the time parses, is
\* later than `now` and its minute is neither 0 nor 30.
OffGrid(r) ==
    /\ Done(r) /\ Authed(r) /\ HasObject(r) /\ AllPresent(Body(r))
    /\ IsIso(Body(r).appointmentTime)
    /\ InstantOf(Body(r).appointmentTime) > now[r]
    /\ getUTCMinutes(InstantOf(Body(r).appointmentTime)) \notin {0, 30}

\* C10 as claimed: such a request is answered 400 with the interval message
\* and nothing is stored.
C10_IntervalMessage ==
    \A r \in Reqs :
        OffGrid(r) => response[r] = Reply(400, MsgInterval) /\ NoStoreCall(r)

\* C10 as amended: such a request is answered 400 and nothing is stored; the
\* message is the interval message when the hour (UTC) is from 9 to 17, and
\* the business-hours message otherwise, that check coming first.
C10_OffGridRejected ==
    \A r \in Reqs :
        OffGrid(r) =>
            /\ NoStoreCall(r)
            /\ response[r] =
                 IF getUTCHours(InstantOf(Body(r).appointmentTime)) \in 9..17
                 THEN Reply(400, MsgInterval) ELSE Reply(400, MsgHours)

\* A request for a quarter past, inside the opening hours, was answered with
\* the interval message.
C10_QuarterPast ==
    \E r \in Reqs :
        /\ OffGrid(r)
        /\ getUTCMinutes(InstantOf(Body(r).appointmentTime)) = 15
        /\ response[r] = Reply(400, MsgInterval)

-----------------------------------------------------------------------------
\* The clock digits of the day an instant shows (UTC).
TimeOfDay(t) == t % (24 * MsPerHour)

\* The window of the design: 09:00 inclusive to 19:00 exclusive.
WindowOpen == At(0, 9, 0, 0)
WindowClose == At(0, 19, 0, 0)
InWindow(t) == WindowOpen <= TimeOfDay(t) /\ TimeOfDay(t) < WindowClose

\* The instant is a whole multiple of 30 minutes.
OnGrid(t) == t % (30 * MsPerMinute) = 0

\* The request is authenticated, every field is present, the time parses, is
\* later than `now` and lies on the 30-minute grid.
FutureOnGrid(r) ==
    /\ Done(r) \/ Queried(r)
    /\ Authed(r) /\ HasObject(r) /\ AllPresent(Body(r))
    /\ IsIso(Body(r).appointmentTime)
    /\ InstantOf(Body(r).appointmentTime) > now[r]
    /\ OnGrid(InstantOf(Body(r).appointmentTime))

\* C11: the business-hours check accepts exactly [09:00, 19:00): a future,
\* grid-aligned time passes the check (the request goes on to the conflict
\* query) if and only if 09:00 <= time of day < 19:00, and is answered 400
\* with the business-hours message otherwise.
C11_HalfOpenWindow ==
    \A r \in Reqs :
        FutureOnGrid(r) =>
            IF InWindow(InstantOf(Body(r).appointmentTime))
            THEN Queried(r)
            ELSE response[r] = Reply(400, MsgHours) /\ NoStoreCall(r)

-----------------------------------------------------------------------------
\* The invocation put its item and returned success.
Inserted(r) == Done(r) /\ item[r] # None /\ Message(r) = MsgScheduled

\* C12: every record schedule inserts has an appointment time that (a) is a
\* whole multiple of 30 minutes, so with zero seconds and milliseconds,
\* (b) lies inside the business-hour window and (c) was later than `now`
\* when the request was validated.
C12_InsertedTimes ==
    \A r \in Reqs :
        Inserted(r) =>
            LET t == InstantOf(item[r].appointmentTime) IN
            /\ OnGrid(t)
            /\ InWindow(t)
            /\ t > now[r]

-----------------------------------------------------------------------------
\* The properties of a record that come from the request.
RequestFields(x) ==
    [f \in Fields |-> x[f]]

\* C13: the put of a successful request hands the table a record whose
\* location, appointmentTime, fullName, car and services are those of the
\* request body, the table holds that record when the put returns, and the
\* appointmentDetails of the success response are that record.
C13_RoundTrip ==
    [][\A r \in Reqs :
          (pc[r] = "putting" /\ pc'[r] = "done" /\ response'[r].statusCode # 500)
          => /\ item[r] \in store'
             /\ RequestFields(item[r]) = RequestFields(Body(r))
             /\ response'[r].body.appointmentDetails = item[r]
             /\ RequestFields(response'[r].body.appointmentDetails)
                    = RequestFields(Body(r))]_vars

\* A request whose appointmentTime is not spelled the way toISOString spells
\* it was stored and returned as sent.
C13_StoredAsSent ==
    \E r \in Reqs :
        /\ Inserted(r)
        /\ item[r] \in store
        /\ Body(r).appointmentTime # toISOString(InstantOf(Body(r).appointmentTime))
        /\ response[r].body.appointmentDetails.appointmentTime = Body(r).appointmentTime
        /\ RequestFields(item[r]) = RequestFields(Body(r))

-----------------------------------------------------------------------------
\* C14: every successful request gives its record an appointmentId and
\* returns it in the success response; no two records of the table share an
\* appointmentId.
C14_AppointmentId ==
    /\ \A r \in Reqs :
          Inserted(r) =>
              /\ "appointmentId" \in DOMAIN item[r]
              /\ "appointmentId" \in DOMAIN response[r].body
                 \/ "appointmentId" \in DOMAIN response[r].body.appointmentDetails
    /\ \A x \in store : \A y \in store :
          (x # y) => /\ "appointmentId" \in DOMAIN x
                     /\ "appointmentId" \in DOMAIN y
                     /\ x.appointmentId # y.appointmentId

-----------------------------------------------------------------------------
\* A response with a status code and a body that carries a message.
Structured(resp) ==
    /\ DOMAIN resp = {"statusCode", "body"}
    /\ resp.statusCode \in {200, 400, 401, 403, 409, 500}
    /\ "message" \in DOMAIN resp.body

\* The query of the invocation was rejected.
QueryFailed(r) == scan[r] # None /\ ~scan[r].ok

\* C15: every store call being resolved or rejected in the end, every
\* invocation ends, and it ends with a structured response; an invocation
\* whose query was rejected, or whose put was rejected, is answered 500 with
\* the generic server-error message.
C15_AlwaysResponds ==
    /\ \A r \in Reqs : (pc[r] # "idle") ~> Done(r)
    /\ [](\A r \in Reqs : Done(r) => Structured(response[r]))
    /\ [](\A r \in Reqs :
            (Done(r) /\ QueryFailed(r))
                => Status(r) = 500 /\ Message(r) = MsgServer)
    /\ [][\A r \in Reqs :
            (pc[r] = "putting" /\ pc'[r] = "done" /\ item[r] \notin store')
                => /\ response'[r].statusCode = 500
                   /\ response'[r].body.message = MsgServer]_vars

\* One invocation was answered 500 after its query was rejected, another
\* after its put was rejected.
C15_BothFailures ==
    \E r1 \in Reqs : \E r2 \in Reqs :
        /\ Done(r1) /\ QueryFailed(r1)
        /\ response[r1] = ServerError("DB Error")
        /\ Done(r2) /\ PassedCheck(r2) /\ item[r2] # None /\ item[r2] \notin store
        /\ response[r2] = ServerError("DB Error")

-----------------------------------------------------------------------------
\* C16: a request that fails authentication or validation is answered
\* 401, 403 or 400 in the step in which it began, having sent neither the
\* conflict query nor the put, and the table is as it was.
C16_FailFast ==
    /\ [](\A r \in Reqs :
            (Done(r) /\ Status(r) \in {400, 401, 403}) => NoStoreCall(r))
    /\ [][\A r \in Reqs :
            (pc[r] # "done" /\ pc'[r] = "done"
                /\ response'[r].statusCode \in {400, 401, 403})
            => (pc[r] = "idle" /\ store' = store)]_vars

\* A request with a wrong token and a request lacking a field were turned
\* away, and the table holds what it held.
C16_TurnedAway ==
    /\ Done(1) /\ Status(1) = 403 /\ NoStoreCall(1)
    /\ Done(2) /\ Status(2) = 400 /\ NoStoreCall(2)
    /\ store = {Earlier}

-----------------------------------------------------------------------------
\* C17: an invocation sends its conflict query only as it begins, and so at
\* most once; it sends its put only when its query came back empty, and so at
\* most once and never after a rejected query; an invocation that has ended
\* stays ended, so nothing is retried; the table changes only by a put.
C17_StoreProtocol ==
    [][\A r \in Reqs :
          /\ (pc'[r] = "scanning" /\ pc[r] # "scanning") => pc[r] = "idle"
          /\ (pc'[r] = "scanned" /\ pc[r] # "scanned") => pc[r] = "scanning"
          /\ (pc'[r] = "putting" /\ pc[r] # "putting")
                => (pc[r] = "scanned" /\ PassedCheck(r))
          /\ pc[r] # "idle" => pc'[r] # "idle"
          /\ Done(r) => pc'[r] = "done"
          /\ QueryFailed(r) => (item'[r] = None /\ QueryFailed(r)')
          /\ store' # store => \E q \in Reqs : pc[q] = "putting" /\ pc'[q] = "done"]_vars

\* One invocation put after an empty query; another ended after a rejected
\* query without having put.
C17_PutAndGiveUp ==
    \E r1 \in Reqs : \E r2 \in Reqs :
        /\ Done(r1) /\ PassedCheck(r1) /\ Status(r1) = 200 /\ item[r1] \in store
        /\ Done(r2) /\ QueryFailed(r2) /\ item[r2] = None /\ Status(r2) = 500

-----------------------------------------------------------------------------
\* What validation made of the request: valid (the invocation went on to the
\* conflict query), or the response it was turned away with.
Classification(r) ==
    IF Queried(r) THEN [valid |-> TRUE]
                  ELSE [valid |-> FALSE, response |-> response[r]]

\* C18: two invocations with the same event and the same `now` (the API key
\* being the same) are classified alike by validation, whatever the table
\* held when each was validated and whatever was requested before.
C18_SameClassification ==
    \A r1 \in Reqs : \A r2 \in Reqs :
        (pc[r1] # "idle" /\ pc[r2] # "idle"
            /\ event[r1] = event[r2] /\ now[r1] = now[r2])
        => Classification(r1) = Classification(r2)

\* The same request was validated twice at the same `now`, before and after
\* its slot was stored, and passed validation both times: the first was
\* answered success, the second 409 by the conflict check.
C18_ValidatedTwice ==
    \E r1 \in Reqs : \E r2 \in Reqs :
        /\ r1 # r2 /\ Done(r1) /\ Done(r2)
        /\ event[r1] = event[r2] /\ now[r1] = now[r2]
        /\ Status(r1) = 200 /\ dup[r2] /\ Status(r2) = 409
        /\ Classification(r1) = Classification(r2)

-----------------------------------------------------------------------------
\* C19: a request that created an appointment is answered with status 201.
C19_Created201 ==
    \A r \in Reqs :
        (Done(r) /\ item[r] # None /\ Message(r) = MsgScheduled) => Status(r) = 201

-----------------------------------------------------------------------------
\* The invocation was answered with a success status.
Succeeded(r) == Done(r) /\ Status(r) \in {200, 201}

\* C20: of the invocations for one location and appointmentTime whose
\* queries all came back empty only the first to put succeeds, the put of a
\* later one being rejected and answered as a conflict; so at most one
\* request per location and appointmentTime is ever answered success.
C20_OneSuccessPerSlot ==
    \A r1 \in Reqs : \A r2 \in Reqs :
        (r1 # r2 /\ Done(r1) /\ Done(r2)
            /\ PassedCheck(r1) /\ PassedCheck(r2)
            /\ Slot(Body(r1)) = Slot(Body(r2)))
        => /\ ~(Succeeded(r1) /\ Succeeded(r2))
           /\ \A r \in {r1, r2} : clobbered[r] => Status(r) = 409

-----------------------------------------------------------------------------
\* The table holds a record with the fullName, car and services of the
\* request of r at its location and appointmentTime.
Holds(table, r) ==
    \E x \in table : RequestFields(x) = RequestFields(Body(r))

\* C21: no successful booking is lost: for every request that was answered
\* success the table holds a record with that request's fullName, car and
\* services at its location and appointmentTime.
C21_NoBookingLost ==
    \A r \in Reqs : (Done(r) /\ Status(r) = 200) => Holds(store, r)

-----------------------------------------------------------------------------
\* C22: the key of the conflict check is canonical: with invocations one
\* after the other, a valid request for a location and an instant for which
\* an earlier request was answered success is answered 409 (the table
\* answering its query) however its appointmentTime is spelled, and the
\* table holds one record for that location and instant.
C22_CanonicalKey ==
    /\ \A r1 \in Reqs : \A r2 \in Reqs :
          (r1 < r2 /\ Done(r1) /\ Status(r1) = 200 /\ Done(r2) /\ Answered(r2)
              /\ Body(r1).location = Body(r2).location
              /\ InstantOf(Body(r1).appointmentTime) = InstantOf(Body(r2).appointmentTime))
          => response[r2] = Reply(409, MsgBooked)
    /\ \A x \in store : \A y \in store :
          (x.location = y.location
              /\ InstantOf(x.appointmentTime) = InstantOf(y.appointmentTime))
          => x = y

-----------------------------------------------------------------------------
\* The table held, when the invocation queried it, no item of its own
\* location within the conflict window: whatever it held was elsewhere or at
\* another time.
NothingNearby(r) == Answered(r) /\ ~inWindow[r]

\* C23: the conflict check is scoped to the location: the items a query
\* returns are all of the location of the request, a 409 is answered only on
\* such an item, and a request that found nothing at its own location is
\* accepted (put, and answered success unless the table rejects the put),
\* whatever the table holds for other locations at that time.
C23_LocationScoped ==
    \A r \in Reqs :
        (Done(r) /\ Answered(r)) =>
            /\ \A x \in scan[r].Items : x.location = Body(r).location
            /\ Status(r) = 409 => scan[r].Items # {}
            /\ NothingNearby(r) =>
                  /\ item[r] # None
                  /\ \/ Status(r) = 200 /\ Holds(store, r)
                     \/ Status(r) = 500 /\ response[r].body.error \in StoreErrors

\* Two requests for one appointmentTime at two locations were both answered
\* success, the second after the record of the first was in the table, and
\* the table holds both records.
C23_BothLocations ==
    \E r1 \in Reqs : \E r2 \in Reqs :
        /\ Done(r1) /\ Done(r2)
        /\ Status(r1) = 200 /\ Status(r2) = 200
        /\ Body(r1).location # Body(r2).location
        /\ Body(r1).appointmentTime = Body(r2).appointmentTime
        /\ item[r1] \in store /\ item[r2] \in store
        /\ r1 < r2 /\ NothingNearby(r2)

-----------------------------------------------------------------------------
\* The body of the request is one validation would turn away, or is for a
\* slot the table holds.
BadBody(r) ==
    \/ ~HasObject(r)
    \/ ~AllPresent(Body(r))
    \/ ~IsIso(Body(r).appointmentTime)
    \/ InstantOf(Body(r).appointmentTime) <= now[r]
    \/ OffInterval(InstantOf(Body(r).appointmentTime))
    \/ \E x \in store : SameKey(x, Body(r))

\* C24: authentication is decided before the body is looked at: with the
\* key configured, a request that fails authentication is answered the 401
\* or the 403 of validateApiKey whatever its body, never 400 or 409, and it
\* makes no store call; with the key not configured every request is
\* answered the 500 of validateApiKey, whatever its body.
C24_AuthFirst ==
    \A r \in Reqs :
        (Done(r) /\ ~Authed(r)) =>
            /\ response[r] = validateApiKey(event[r], apiKey).response
            /\ apiKey # << >> =>
                  response[r] \in {Reply(401, MsgUnauthorized), Reply(403, MsgForbidden)}
            /\ Status(r) \notin {400, 409}
            /\ NoStoreCall(r)

\* A request with a wrong token and a body that is no JSON was answered 403.
C24_WrongTokenBadBody ==
    \E r \in Reqs :
        /\ Done(r) /\ apiKey # << >> /\ ~Authed(r)
        /\ BodyText(event[r]).kind = "garbage"
        /\ response[r] = Reply(403, MsgForbidden)

-----------------------------------------------------------------------------
\* The Authorization header is present, and it does not start with
\* 'Bearer ' or nothing follows the prefix.
Malformed(h) == h # << >> /\ (~startsWithBearer(h) \/ Tail(h) = << >>)

\* C25: with the key configured, a request whose Authorization header is
\* present but malformed is answered 401 'Unauthorized', not 403, also when
\* the header is the configured key without the prefix; it makes no store
\* call.
C25_MalformedHeader ==
    \A r \in Reqs :
        (Done(r) /\ apiKey # << >> /\ Malformed(authHeader(event[r])))
        => /\ response[r] = Reply(401, MsgUnauthorized)
           /\ NoStoreCall(r)

\* A request whose header is the key itself, without the prefix, and whose
\* body is valid was answered 401.
C25_KeyWithoutPrefix ==
    \E r \in Reqs :
        /\ Done(r) /\ apiKey # << >>
        /\ authHeader(event[r]) = apiKey
        /\ HasObject(r) /\ ~BadBody(r)
        /\ response[r] = Reply(401, MsgUnauthorized)

-----------------------------------------------------------------------------
\* The request has no body, or the empty string as body.
NoBody(ev) == "body" \notin DOMAIN ev \/ ev.body = [kind |-> "empty"]
\* The body of the request is a text that is no JSON.
NotJson(ev) == "body" \in DOMAIN ev /\ ev.body = [kind |-> "garbage"]

\* C26: an authenticated request whose body is no JSON is answered 400 with
\* the invalid-JSON message; one without body, or with an empty body, is
\* answered 400 with the missing-required-fields message; neither makes a
\* store call.
C26_BodyParsing ==
    \A r \in Reqs :
        (Done(r) /\ Authed(r)) =>
            /\ NotJson(event[r]) => response[r] = Reply(400, MsgJson) /\ NoStoreCall(r)
            /\ NoBody(event[r]) => response[r] = Reply(400, MsgMissing) /\ NoStoreCall(r)

\* An authenticated request without body was answered with the
\* missing-required-fields message.
C26_AbsentBody ==
    \E r \in Reqs :
        /\ Done(r) /\ Authed(r)
        /\ "body" \notin DOMAIN event[r]
        /\ response[r] = Reply(400, MsgMissing)

-----------------------------------------------------------------------------
\* The put of the invocation was rejected.
PutFailed(r) == Done(r) /\ PassedCheck(r) /\ item[r] # None /\ Status(r) = 500

\* C27: the response to a storage failure does not show the cause: two
\* invocations with the same event whose query was rejected, or whose put
\* was rejected, whatever the error of each, are answered the same 500
\* response.
C27_CauseHidden ==
    \A r1 \in Reqs : \A r2 \in Reqs :
        (Done(r1) /\ Done(r2) /\ event[r1] = event[r2]
            /\ \/ QueryFailed(r1) /\ QueryFailed(r2)
               \/ PutFailed(r1) /\ PutFailed(r2))
        => response[r1] = response[r2]

-----------------------------------------------------------------------------
\* C28: the appointment time of every record schedule inserts is later than
\* the createdAt of the record, however much time passes between the
\* reading of `now` and the reading of createdAt.
C28_AfterCreatedAt ==
    \A r \in Reqs :
        Inserted(r) =>
            InstantOf(item[r].appointmentTime) > InstantOf(item[r].createdAt)

====
